---- MODULE Spec2Model ----
(***************************************************************************)
(* A model of utils/binary_reader.py (class BinaryReader): a cursor over a *)
(* byte buffer, the primitive reads built on read(), the Telegram          *)
(* length-prefixed byte string reader and the registry-driven object       *)
(* reader.                                                                 *)
(*                                                                         *)
(* Every reading method is a pure operator of (buffer, position). It       *)
(* yields a record                                                         *)
(*    [kind, val, pos, log]                                                *)
(* kind: "ok" or the name of the exception raised; val: the value returned *)
(* (<<>> when an exception is raised); pos: the reader's position when the *)
(* method ends; log: what it did, in order (one entry per read(), per text *)
(* decoding, per registry lookup, per on_response call and per             *)
(* tgread_object return).                                                  *)
(*                                                                         *)
(* The module also models telethon/extensions/html.py (class               *)
(* HTMLToTelegramParser): the three handlers the HTML parser calls, over   *)
(* the text, the entities and the two deques of open tags.                 *)
(***************************************************************************)
EXTENDS Integers, Sequences, FiniteSets, TLC

VARIABLES
    data,      \* the `data` argument handed to BinaryReader(...): None or bytes
    stream,    \* the `stream` argument: None or a stream holding bytes
    reader,    \* "new" (not constructed), "open", "closed", "failed" (__init__ raised)
    buf,       \* the bytes below self.reader once it is constructed
    pos,       \* self.reader.tell()
    op,        \* the last reading or seeking method called, its argument in arg
    arg,
    startPos,  \* the position when the last method was called
    ret,       \* the outcome of the last method: [kind, val, log]
    nops,      \* how many methods were called on this reader
    input,     \* how the drawn buffer was built: [form, payload, at, tail]
    scope,     \* the with block around the reader: "none", "in" or "exited"
    closes,    \* how many times close() was called
    raised,    \* the exception that left the with block: "none" or its name
    \* telethon/extensions/html.py, one HTMLToTelegramParser
    text,              \* self.text, a sequence of characters
    entities,          \* self.entities, in the order they were appended
    building,          \* self._building_entities: tag -> entity
    openTags,          \* self._open_tags, leftmost first
    openTagsMeta,      \* self._open_tags_meta, leftmost first
    herr,              \* the exception the last handler raised, or "none"
    hist               \* the handler calls made so far, in order

readerVars ==
    <<data, stream, reader, buf, pos, op, arg, startPos, ret, nops, input,
      scope, closes, raised>>

htmlVars == <<text, entities, building, openTags, openTagsMeta, herr, hist>>

vars == <<readerVars, htmlVars>>

----------------------------------------------------------------------------
(* Bounds of the model *)

MaxOps == 2        \* methods called on one reader
MaxWords == 2      \* 4-byte words in a drawn buffer
MaxArg == 2        \* range of the arguments of read, seek and set_position
MaxLongLen == 258  \* longest payload of a drawn long-form record
MaxEvents == 4     \* handler calls made on one HTML parser
MaxSmallLong == 2  \* payload lengths below 254 written in the long form

----------------------------------------------------------------------------
(* Values *)

\* An optional argument: None, or some bytes
None == [some |-> FALSE, bytes |-> <<>>]
Some(b) == [some |-> TRUE, bytes |-> b]
NoValue == <<>>

Min(a, b) == IF a < b THEN a ELSE b
Max(a, b) == IF a > b THEN a ELSE b

Ok(v, p, l) == [kind |-> "ok", val |-> v, pos |-> p, log |-> l]
Raise(e, v, p, l) == [kind |-> e, val |-> v, pos |-> p, log |-> l]

----------------------------------------------------------------------------
(* io.BufferedReader over io.BytesIO, as used by the class *)

\* A faulty variant of ReaderRead: the position moves on by `length` whatever is left
ReaderReadBlind(b, p, n) ==
    LET avail == IF p >= Len(b) THEN 0 ELSE Len(b) - p
    IN  [bytes |-> SubSeq(b, p + 1, p + Min(n, avail)), pos |-> p + n]

\* self.reader.read(length), length >= 0: the bytes left, at most `length` of them
ReaderRead(b, p, n) ==
    LET avail == IF p >= Len(b) THEN 0 ELSE Len(b) - p
        k == Min(n, avail)
    IN  [bytes |-> SubSeq(b, p + 1, p + k), pos |-> p + k]

\* self.reader.seek(position): a negative position raises ValueError
ReaderSeekSet(p, target) ==
    IF target < 0 THEN Raise("ValueError", NoValue, p, <<>>)
    ELSE Ok(NoValue, target, <<>>)

\* self.reader.seek(offset, os.SEEK_CUR): a target below 0 becomes 0
ReaderSeekCur(p, offset) == Ok(NoValue, Max(0, p + offset), <<>>)

----------------------------------------------------------------------------
(* Reading *)

Failed(r) == r.kind # "ok"

\* r, with the calls of l made before those of r
After(l, r) == [r EXCEPT !.log = l \o r.log]

ReadEvent(p, n, got) == [ev |-> "read", at |-> p, n |-> n, got |-> got]

\* Faulty variants of Checked: the length is not compared; the reader is rewound
\* when the read falls short
CheckedNot(n, p, r) == Ok(r.bytes, r.pos, <<ReadEvent(p, n, Len(r.bytes))>>)

CheckedRewind(n, p, r) ==
    IF Len(r.bytes) # n
    THEN Raise("BufferError", NoValue, 0, <<ReadEvent(p, n, Len(r.bytes))>>)
    ELSE Ok(r.bytes, r.pos, <<ReadEvent(p, n, Len(r.bytes))>>)

\* A faulty variant of Checked: the position is put back when the read falls short
CheckedRestore(n, p, r) ==
    IF Len(r.bytes) # n
    THEN Raise("BufferError", NoValue, p, <<ReadEvent(p, n, Len(r.bytes))>>)
    ELSE Ok(r.bytes, r.pos, <<ReadEvent(p, n, Len(r.bytes))>>)

\* if len(result) != length: raise BufferError(...); return result
Checked(n, p, r) ==
    IF Len(r.bytes) # n
    THEN Raise("BufferError", NoValue, r.pos, <<ReadEvent(p, n, Len(r.bytes))>>)
    ELSE Ok(r.bytes, r.pos, <<ReadEvent(p, n, Len(r.bytes))>>)

\* read(length)
Read(b, p, n) == Checked(n, p, ReaderRead(b, p, n))

\* self.read(1)[0]
ByteOf(r) == IF Failed(r) THEN r ELSE [r EXCEPT !.val = r.val[1]]

\* read_byte()
ReadByte(b, p) == ByteOf(Read(b, p, 1))

\* int.from_bytes(bytes, byteorder='little', signed=signed). The integer is kept in
\* 16-bit limbs, least significant first, the most significant limb carrying the sign:
\* its value is the sum of limbs[i] * 65536^(i-1).
FromBytes(bytes, signed) ==
    LET n == Len(bytes)
        k == (n + 1) \div 2
        limbs == [i \in 1..k |->
                    bytes[2 * i - 1] + (IF 2 * i <= n THEN 256 * bytes[2 * i] ELSE 0)]
        top == IF n % 2 = 0 THEN 65536 ELSE 256
    IN  IF signed /\ n > 0 /\ bytes[n] >= 128
        THEN [limbs EXCEPT ![k] = @ - top]
        ELSE limbs

IntOf(r, signed) == IF Failed(r) THEN r ELSE [r EXCEPT !.val = FromBytes(r.val, signed)]

\* read_int(signed=True)
ReadInt(b, p, signed) == IntOf(Read(b, p, 4), signed)

\* read_long(signed=True)
ReadLong(b, p, signed) == IntOf(Read(b, p, 8), signed)

\* read_large_int(bits, signed=True)
ReadLargeInt(b, p, bits, signed) == IntOf(Read(b, p, bits \div 8), signed)

----------------------------------------------------------------------------
(* Telegram custom reading *)

LongFormMarker == 254

\* A faulty variant of IsLongForm: every first byte from 254 up
IsLongFormFrom(first) == first >= LongFormMarker

\* first_byte == 254
IsLongForm(first) == first = LongFormMarker

\* self.read_byte() | (self.read_byte() << 8) | (self.read_byte() << 16)
LongLength(b1, b2, b3) == b1 + 256 * b2 + 65536 * b3

\* Faulty variants of the two paddings: each form with the other's formula
LongPaddingAsShort(length) == (length + 1) % 4

ShortPaddingAsLong(length) == length % 4

\* padding = length % 4
LongPadding(length) == length % 4

\* padding = (length + 1) % 4
ShortPadding(length) == (length + 1) % 4

\* padding = 4 - padding
FillerLength(padding) == 4 - padding

\* return data, once self.read(padding) has ended as filler
TgFiller(v, filler) == IF Failed(filler) THEN filler ELSE [filler EXCEPT !.val = v]

\* if padding > 0: ... self.read(padding), once data = self.read(length) ended as payload
TgData(b, padding, payload) ==
    IF Failed(payload) THEN payload
    ELSE IF padding > 0
    THEN After(payload.log,
               TgFiller(payload.val, Read(b, payload.pos, FillerLength(padding))))
    ELSE payload

\* data = self.read(length) and what follows
TgBody(b, p, length, padding) == TgData(b, padding, Read(b, p, length))

\* the long form, after its third length byte was read as b3
TgLong3(b, v1, v2, b3) ==
    IF Failed(b3) THEN b3
    ELSE After(b3.log,
               TgBody(b, b3.pos, LongLength(v1, v2, b3.val),
                      LongPadding(LongLength(v1, v2, b3.val))))

\* the long form, after its second length byte was read as b2
TgLong2(b, v1, b2) ==
    IF Failed(b2) THEN b2
    ELSE After(b2.log, TgLong3(b, v1, b2.val, ReadByte(b, b2.pos)))

\* the long form, after its first length byte was read as b1
TgLong1(b, b1) ==
    IF Failed(b1) THEN b1
    ELSE After(b1.log, TgLong2(b, b1.val, ReadByte(b, b1.pos)))

\* tgread_bytes() after first_byte = self.read_byte() ended as first
TgHead(b, first) ==
    IF Failed(first) THEN first
    ELSE IF IsLongForm(first.val)
    THEN After(first.log, TgLong1(b, ReadByte(b, first.pos)))
    ELSE After(first.log, TgBody(b, first.pos, first.val, ShortPadding(first.val)))

\* tgread_bytes()
TgreadBytes(b, p) == TgHead(b, ReadByte(b, p))

\* str(bytes, encoding='utf-8'): the code points, or ok = FALSE (UnicodeDecodeError)
RECURSIVE Utf8Decode(_, _, _)
Utf8Decode(bs, i, acc) ==
    LET c == bs[i]
        Cont(j) == j <= Len(bs) /\ bs[j] >= 128 /\ bs[j] <= 191
        Low(j) == bs[j] - 128
    IN  IF i > Len(bs) THEN [ok |-> TRUE, text |-> acc]
        ELSE IF c < 128 THEN Utf8Decode(bs, i + 1, Append(acc, c))
        ELSE IF /\ c >= 194 /\ c <= 223
                /\ Cont(i + 1)
        THEN Utf8Decode(bs, i + 2, Append(acc, (c - 192) * 64 + Low(i + 1)))
        ELSE IF /\ c >= 224 /\ c <= 239
                /\ Cont(i + 1) /\ Cont(i + 2)
                /\ (c = 224 => bs[i + 1] >= 160)
                /\ (c = 237 => bs[i + 1] <= 159)
        THEN Utf8Decode(bs, i + 3,
                 Append(acc, (c - 224) * 4096 + Low(i + 1) * 64 + Low(i + 2)))
        ELSE IF /\ c >= 240 /\ c <= 244
                /\ Cont(i + 1) /\ Cont(i + 2) /\ Cont(i + 3)
                /\ (c = 240 => bs[i + 1] >= 144)
                /\ (c = 244 => bs[i + 1] <= 143)
        THEN Utf8Decode(bs, i + 4,
                 Append(acc, (c - 240) * 262144 + Low(i + 1) * 4096
                             + Low(i + 2) * 64 + Low(i + 3)))
        ELSE [ok |-> FALSE, text |-> <<>>]

\* str(..., encoding='utf-8') on the bytes tgread_bytes gave
DecodeEvent(p, ok) == [ev |-> "decode", at |-> p, ok |-> ok]

TextOf(r, t) ==
    IF ~t.ok
    THEN Raise("UnicodeDecodeError", NoValue, r.pos, r.log \o <<DecodeEvent(r.pos, FALSE)>>)
    ELSE Ok(t.text, r.pos, r.log \o <<DecodeEvent(r.pos, TRUE)>>)

StringOf(r) == IF Failed(r) THEN r ELSE TextOf(r, Utf8Decode(r.val, 1, <<>>))

\* tgread_string()
TgreadString(b, p) == StringOf(TgreadBytes(b, p))

----------------------------------------------------------------------------
(* The registry tl.all_tlobjects.tlobjects and the classes it holds. Keys are    *)
(* the constructor identifiers, unsigned 32-bit numbers, as limbs <<low, high>>. *)

tlobjects ==
    (<<1, 0>> :> "TypeA") @@ (<<2, 0>> :> "TypeB") @@ (<<3, 0>> :> "TypeC")
    @@ (<<1, 32768>> :> "TypeD")

\* the reads on_response makes, in order, for each class
Layout(clazz) ==
    CASE clazz = "TypeA" -> <<"int">>
      [] clazz = "TypeB" -> <<"string", "object">>
      [] clazz = "TypeC" -> <<"object", "int">>
      [] clazz = "TypeD" -> <<"bytes">>

\* tlobjects.get(id, None)
Lookup(id) == IF id \in DOMAIN tlobjects THEN tlobjects[id] ELSE "None"

LookupEvent(p, id, clazz) == [ev |-> "lookup", at |-> p, id |-> id, clazz |-> clazz]
CallEvent(p, clazz) == [ev |-> "on_response", at |-> p, clazz |-> clazz]
ReturnEvent(p, clazz) == [ev |-> "return", at |-> p, clazz |-> clazz]

\* A faulty variant of ReadId: the identifier read as 8 bytes
ReadIdLong(b, p) == ReadLong(b, p, TRUE)

\* id = self.read_int()
ReadId(b, p) == ReadInt(b, p, TRUE)

\* A faulty variant of AfterOnResponse: the instance is returned whatever
\* on_response ended as
AfterOnResponseAnyway(clazz, p, r) ==
    Ok([clazz |-> clazz, fields |-> r.val], r.pos, r.log \o <<ReturnEvent(p, clazz)>>)

\* return result, once result.on_response(self) ended as r; p is where
\* tgread_object started
AfterOnResponse(clazz, p, r) ==
    IF Failed(r) THEN r
    ELSE Ok([clazz |-> clazz, fields |-> r.val], r.pos,
            r.log \o <<ReturnEvent(p, clazz)>>)

RECURSIVE TgreadObject(_, _)
RECURSIVE OnResponse(_, _, _, _, _)

\* one read of on_response
ReadField(f, b, p) ==
    CASE f = "int" -> ReadInt(b, p, TRUE)
      [] f = "bytes" -> TgreadBytes(b, p)
      [] f = "string" -> TgreadString(b, p)
      [] f = "object" -> TgreadObject(b, p)

\* on_response after its read number i ended as r
OnField(layout, i, b, acc, r) ==
    IF Failed(r) THEN r
    ELSE After(r.log, OnResponse(layout, i + 1, b, r.pos, Append(acc, r.val)))

\* result.on_response(reader): read number i of the layout onwards, acc the fields read
OnResponse(layout, i, b, p, acc) ==
    IF i > Len(layout) THEN Ok(acc, p, <<>>)
    ELSE OnField(layout, i, b, acc, ReadField(layout[i], b, p))

\* tgread_object() that returns None for an identifier it does not know
ObjClassDefault(b, p, id, q, clazz) ==
    IF clazz = "None"
    THEN Ok(NoValue, q, <<LookupEvent(q, id, clazz)>>)
    ELSE After(<<LookupEvent(q, id, clazz), CallEvent(q, clazz)>>,
               AfterOnResponse(clazz, p, OnResponse(Layout(clazz), 1, b, q, <<>>)))

\* tgread_object() after clazz = tlobjects.get(id, None); q is the position then
ObjClass(b, p, id, q, clazz) ==
    IF clazz = "None"
    THEN Raise("ImportError", id, q, <<LookupEvent(q, id, clazz)>>)
    ELSE After(<<LookupEvent(q, id, clazz), CallEvent(q, clazz)>>,
               AfterOnResponse(clazz, p, OnResponse(Layout(clazz), 1, b, q, <<>>)))

\* tgread_object() after id = self.read_int() ended as id
ObjId(b, p, id) ==
    IF Failed(id) THEN id
    ELSE After(id.log, ObjClass(b, p, id.val, id.pos, Lookup(id.val)))

\* tgread_object()
TgreadObject(b, p) == ObjId(b, p, ReadId(b, p))

----------------------------------------------------------------------------
(* The buffers the model draws *)

Words ==
    { <<1, 0, 0, 0>>,            \* the identifier of TypeA; the integer 1
      <<1, 0, 0, 128>>,          \* the identifier of TypeD, high bit set
      <<255, 255, 255, 255>>,    \* no identifier of the registry; the integer -1
      <<2, 65, 66, 0>>,          \* the string "AB" in the short form
      <<254, 1, 0, 0>> }         \* the head of a long-form string of length 1

Samples ==
    { \* TypeB("AB", TypeA(42))
      <<2, 0, 0, 0, 2, 65, 66, 0, 1, 0, 0, 0, 42, 0, 0, 0>>,
      \* TypeB("AB", <no such identifier>)
      <<2, 0, 0, 0, 2, 65, 66, 0, 255, 255, 255, 255>>,
      \* TypeB(<no UTF-8 text>, TypeA(42))
      <<2, 0, 0, 0, 2, 195, 40, 0, 1, 0, 0, 0, 42, 0, 0, 0>>,
      \* TypeC(TypeB("", TypeA(5)), 9)
      <<3, 0, 0, 0, 2, 0, 0, 0, 0, 0, 0, 0, 1, 0, 0, 0, 5, 0, 0, 0, 9, 0, 0, 0>>,
      \* TypeD("e-acute") as the wire carries it
      <<1, 0, 0, 128, 2, 195, 169, 0>>,
      \* a long-form string of length 1 and its filler
      <<254, 1, 0, 0, 77, 0, 0, 0>> }

RECURSIVE WordStrings(_)
WordStrings(k) ==
    IF k = 0 THEN {<<>>}
    ELSE LET s == WordStrings(k - 1) IN s \cup {x \o w : x \in s, w \in Words}

Prefixes(b) == {SubSeq(b, 1, n) : n \in 0..Len(b)}

Buffers == UNION {Prefixes(b) : b \in WordStrings(MaxWords) \cup Samples}

PayloadSeeds == {0, 250}

Payload(n, seed) == [i \in 1..n |-> (seed + 7 * i) % 256]

Filler(n) == [i \in 1..n |-> 0]

\* len (1 byte), the data, filler up to the next multiple of 4 in total
ShortForm(payload) ==
    <<Len(payload)>> \o payload \o Filler((4 - ((Len(payload) + 1) % 4)) % 4)

\* 0xFE, len (3 bytes, little-endian), the data, filler up to a multiple of 4
LongForm(payload) ==
    <<LongFormMarker, Len(payload) % 256, (Len(payload) \div 256) % 256,
      Len(payload) \div 65536>>
    \o payload \o Filler((4 - (Len(payload) % 4)) % 4)

StreamSample == <<2, 65, 66, 0>>

\* The arguments BinaryReader(...) is called with
CtorArgs ==
    {[data |-> Some(b), stream |-> None] :
        b \in Buffers \cup {ShortForm(Payload(LongFormMarker + 1, 0))}}
    \cup {[data |-> d, stream |-> st] :
            d \in {None, Some(<<>>), Some(<<7>>)},
            st \in {None, Some(<<>>), Some(StreamSample)}}

\* HTMLToTelegramParser.__init__()
NewParser ==
    /\ text = <<>>
    /\ entities = <<>>
    /\ building = [t \in {} |-> 0]
    /\ openTags = <<>>
    /\ openTagsMeta = <<>>
    /\ herr = "none"
    /\ hist = <<>>

NoRet == [kind |-> "none", val |-> NoValue, log |-> <<>>]
NoArg == [n |-> 0, signed |-> FALSE]
RawInput == [form |-> "raw", payload |-> <<>>, at |-> 0, tail |-> 0]

Fresh(d, st, in) ==
    /\ data = d
    /\ stream = st
    /\ input = in
    /\ reader = "new"
    /\ buf = <<>>
    /\ pos = 0
    /\ op = "none"
    /\ arg = NoArg
    /\ startPos = 0
    /\ ret = NoRet
    /\ nops = 0
    /\ scope = "none"
    /\ closes = 0
    /\ raised = "none"
    /\ NewParser

Init == \E a \in CtorArgs : Fresh(a.data, a.stream, RawInput)

----------------------------------------------------------------------------
(* The methods *)

\* A faulty variant of InitStream: the stream is taken whenever one is given
InitStreamFirst(d, st) ==
    IF st.some THEN Ok(st.bytes, 0, <<>>)
    ELSE IF d.some /\ d.bytes # <<>> THEN Ok(d.bytes, 0, <<>>)
    ELSE Raise("ValueError", NoValue, 0, <<>>)

\* if data: BytesIO(data) / elif stream: stream / else: raise ValueError(...).
\* The value is the content of self.stream; b'' and None are both false
InitStream(d, st) ==
    IF d.some /\ d.bytes # <<>> THEN Ok(d.bytes, 0, <<>>)
    ELSE IF st.some THEN Ok(st.bytes, 0, <<>>)
    ELSE Raise("ValueError", NoValue, 0, <<>>)

\* __init__() after self.stream was chosen as r
Constructed(r) ==
    /\ reader = "new"
    /\ op' = "__init__"
    /\ arg' = NoArg
    /\ startPos' = 0
    /\ pos' = 0
    /\ buf' = IF Failed(r) THEN buf ELSE r.val
    /\ reader' = IF Failed(r) THEN "failed" ELSE "open"
    /\ ret' = [NoRet EXCEPT !.kind = r.kind]
    /\ UNCHANGED <<data, stream, nops, input, scope, closes, raised, htmlVars>>

\* __init__(data=None, stream=None)
Construct == Constructed(InitStream(data, stream))

\* A call of method `name` with argument a that ends as r. Inside a with block
\* an exception leaves the block: no further call of the body is made
Call(name, a, r) ==
    /\ reader = "open"
    /\ nops < MaxOps
    /\ scope = "in" => ret.kind = "ok"
    /\ op' = name
    /\ arg' = a
    /\ startPos' = pos
    /\ pos' = r.pos
    /\ ret' = [kind |-> r.kind, val |-> r.val, log |-> r.log]
    /\ nops' = nops + 1
    /\ UNCHANGED <<data, stream, reader, buf, input, scope, closes, raised, htmlVars>>

ReadSizes == 0..MaxArg
LargeBits == {8 * k : k \in 1..MaxArg} \cup {12, 128}
SeekOffsets == (0 - MaxArg)..MaxArg
Positions == (-1)..MaxArg \cup {Len(buf) - 1, Len(buf), Len(buf) + 1}

DoRead == \E n \in ReadSizes : Call("read", [n |-> n, signed |-> FALSE], Read(buf, pos, n))

DoReadByte == Call("read_byte", NoArg, ReadByte(buf, pos))

DoReadInt ==
    \E sg \in BOOLEAN : Call("read_int", [n |-> 0, signed |-> sg], ReadInt(buf, pos, sg))

DoReadLong ==
    \E sg \in BOOLEAN : Call("read_long", [n |-> 0, signed |-> sg], ReadLong(buf, pos, sg))

DoReadLargeInt ==
    \E bits \in LargeBits, sg \in BOOLEAN :
        Call("read_large_int", [n |-> bits, signed |-> sg],
             ReadLargeInt(buf, pos, bits, sg))

DoTgreadBytes == Call("tgread_bytes", NoArg, TgreadBytes(buf, pos))

DoTgreadString == Call("tgread_string", NoArg, TgreadString(buf, pos))

DoTgreadObject == Call("tgread_object", NoArg, TgreadObject(buf, pos))

\* set_position(position)
DoSetPosition ==
    \E t \in Positions :
        Call("set_position", [n |-> t, signed |-> FALSE], ReaderSeekSet(pos, t))

\* seek(offset)
DoSeek ==
    \E o \in SeekOffsets :
        Call("seek", [n |-> o, signed |-> FALSE], ReaderSeekCur(pos, o))

Next ==
    \/ Construct
    \/ DoRead
    \/ DoReadByte
    \/ DoReadInt
    \/ DoReadLong
    \/ DoReadLargeInt
    \/ DoTgreadBytes
    \/ DoTgreadString
    \/ DoTgreadObject
    \/ DoSetPosition
    \/ DoSeek

Spec == Init /\ [][Next]_vars

----------------------------------------------------------------------------
(* The reader as a context manager: with BinaryReader(...) as reader: body *)

\* A faulty variant of ExitReturn: __exit__ returns True
ExitReturnTrue == TRUE

\* what __exit__ returns: it has no return statement, so None, which is false
ExitReturn == FALSE

\* what leaves a with block whose body ended as kind and whose __exit__ returned
\* suppress
Propagated(kind, suppress) ==
    IF kind # "ok" /\ ~suppress THEN kind ELSE "none"

\* close(): self.reader.close()
Close ==
    /\ reader' = "closed"
    /\ closes' = closes + 1

\* close() called on a reader used without a with block
DoClose ==
    /\ reader = "open"
    /\ scope = "none"
    /\ Close
    /\ UNCHANGED <<data, stream, buf, pos, op, arg, startPos, ret, nops, input,
                   scope, raised, htmlVars>>

\* __enter__(): return self
Enter ==
    /\ reader = "open"
    /\ scope = "none"
    /\ nops = 0
    /\ scope' = "in"
    /\ UNCHANGED <<data, stream, reader, buf, pos, op, arg, startPos, ret, nops,
                   input, closes, raised, htmlVars>>

\* __exit__(exc_type, exc_val, exc_tb): self.close(); the body ended as ret
Exit ==
    /\ scope = "in"
    /\ Close
    /\ scope' = "exited"
    /\ raised' = Propagated(ret.kind, ExitReturn)
    /\ UNCHANGED <<data, stream, buf, pos, op, arg, startPos, ret, nops, input,
                   htmlVars>>

\* the calls made in the body of the with block
Body ==
    /\ scope = "in"
    /\ \/ DoRead
       \/ DoTgreadString
       \/ DoTgreadObject
       \/ DoSeek

NextWith ==
    \/ Construct
    \/ DoClose
    \/ Enter
    \/ Body
    \/ Exit

SpecWith == Init /\ [][NextWith]_vars

----------------------------------------------------------------------------
(* Length-prefixed records, built as the wire format lays them out, and the *)
(* specification that decodes them                                          *)

\* every first byte but the marker is drawn as a short-form length
ShortLengths == (0..(LongFormMarker + 1)) \ {LongFormMarker}

\* a length whose third byte is not 0
WideLength == 65536 + 256 + MaxSmallLong

LongLengths == (0..MaxSmallLong) \cup (LongFormMarker..MaxLongLen)

RecordInputs ==
    {[form |-> "short", payload |-> Payload(n, sd), at |-> k, tail |-> t] :
        n \in ShortLengths, sd \in PayloadSeeds, k \in 0..1, t \in 0..1}
    \cup
    {[form |-> "long", payload |-> Payload(n, sd), at |-> k, tail |-> t] :
        n \in LongLengths, sd \in PayloadSeeds, k \in 0..1, t \in 0..1}
    \cup
    {[form |-> "long", payload |-> Payload(WideLength, 0), at |-> 0, tail |-> 1]}

\* the buffer: `at` bytes, the record, `tail` bytes
Encoded(in) ==
    [i \in 1..in.at |-> 200]
    \o (IF in.form = "short" THEN ShortForm(in.payload) ELSE LongForm(in.payload))
    \o [i \in 1..in.tail |-> 171]

InitRecords == \E in \in RecordInputs : Fresh(Some(Encoded(in)), None, in)

NextRecords ==
    \/ Construct
    \/ DoReadByte
    \/ DoTgreadBytes

SpecRecords == InitRecords /\ [][NextRecords]_vars

----------------------------------------------------------------------------
(* telethon/extensions/html.py: class HTMLToTelegramParser. Texts are       *)
(* sequences of one-character strings. An attribute is absent, present      *)
(* without a value (None, as in <a href>) or present with a text; a value   *)
(* kept on _open_tags_meta is None or a text.                               *)

Absent == [has |-> FALSE, none |-> FALSE, val |-> <<>>]
Bare == [has |-> TRUE, none |-> TRUE, val |-> <<>>]
Attr(v) == [has |-> TRUE, none |-> FALSE, val |-> v]

MetaNone == [some |-> FALSE, val |-> <<>>]
Meta(v) == [some |-> TRUE, val |-> v]

\* the truth value of a meta: None and '' are false
Truthy(m) == m.some /\ m.val # <<>>

Mailto == <<"m", "a", "i", "l", "t", "o", ":">>
LanguagePrefix == <<"l", "a", "n", "g", "u", "a", "g", "e", "-">>

\* s.startswith(prefix)
StartsWith(s, prefix) ==
    Len(s) >= Len(prefix) /\ SubSeq(s, 1, Len(prefix)) = prefix

\* s[k:]
Drop(s, k) == SubSeq(s, k + 1, Len(s))

\* self.get_starttag_text() of <a href="...">: the tag as it was written
StartTagText(tag, attrs) ==
    <<"<", tag, " href=", "\"">> \o attrs.href.val \o <<"\"", ">">>

\* What the if/elif chain of handle_starttag ends with: the EntityType and its
\* args, whether it returned or raised, the meta it put in place of None, and
\* the language it gave to the <pre> entity under construction
NoBranch ==
    [type |-> "None", url |-> <<>>, language |-> <<>>, returns |-> FALSE,
     err |-> "none", setMeta |-> FALSE, meta |-> MetaNone, setPre |-> FALSE]

Chose(type) == [NoBranch EXCEPT !.type = type]

\* elif tag == 'code'
TagCode(attrs, b) ==
    IF "pre" \in DOMAIN b
    THEN IF ~attrs.class.has THEN NoBranch
         ELSE IF attrs.class.none THEN [NoBranch EXCEPT !.err = "TypeError"]
         ELSE [NoBranch EXCEPT !.setPre = TRUE,
                               !.language = Drop(attrs.class.val, Len(LanguagePrefix))]
    ELSE Chose("MessageEntityCode")

\* elif tag == 'a'
TagA(attrs, startText) ==
    IF ~attrs.href.has THEN [NoBranch EXCEPT !.returns = TRUE]
    ELSE IF attrs.href.none THEN [NoBranch EXCEPT !.err = "AttributeError"]
    ELSE IF StartsWith(attrs.href.val, Mailto)
    THEN [Chose("MessageEntityEmail") EXCEPT
              !.setMeta = TRUE, !.meta = Meta(Drop(attrs.href.val, Len(Mailto)))]
    ELSE IF startText = attrs.href.val
    THEN [Chose("MessageEntityUrl") EXCEPT
              !.setMeta = TRUE, !.meta = Meta(attrs.href.val)]
    ELSE [Chose("MessageEntityTextUrl") EXCEPT
              !.setMeta = TRUE, !.meta = MetaNone, !.url = attrs.href.val]

\* the if/elif chain on the tag
TagBranch(tag, attrs, b) ==
    CASE tag \in {"strong", "b"} -> Chose("MessageEntityBold")
      [] tag \in {"em", "i"} -> Chose("MessageEntityItalic")
      [] tag = "u" -> Chose("MessageEntityUnderline")
      [] tag \in {"del", "s"} -> Chose("MessageEntityStrike")
      [] tag = "blockquote" -> Chose("MessageEntityBlockquote")
      [] tag = "code" -> TagCode(attrs, b)
      [] tag = "pre" -> Chose("MessageEntityPre")
      [] tag = "a" -> TagA(attrs, StartTagText(tag, attrs))
      [] OTHER -> NoBranch

\* A faulty variant of MetaAfterStart: the None is popped and nothing is pushed
MetaAfterStartPopped(meta, c) ==
    IF c.setMeta THEN meta ELSE <<MetaNone>> \o meta

\* _open_tags_meta after handle_starttag: appendleft(None), then for <a> with an
\* href popleft() and appendleft(url)
MetaAfterStart(meta, c) ==
    IF c.setMeta THEN <<c.meta>> \o Tail(<<MetaNone>> \o meta)
    ELSE <<MetaNone>> \o meta

\* A faulty variant of Creates: the tag is not looked up in _building_entities
CreatesAlways(tag, c, b) ==
    c.err = "none" /\ ~c.returns /\ c.type # "None"

\* if EntityType and tag not in self._building_entities, when that line is reached
Creates(tag, c, b) ==
    c.err = "none" /\ ~c.returns /\ c.type # "None" /\ tag \notin DOMAIN b

\* EntityType(offset=len(self.text), length=0, **args)
NewEntity(c, txt) ==
    [type |-> c.type, offset |-> Len(txt), length |-> 0, url |-> c.url,
     language |-> c.language]

\* pre.language = attrs['class'][len('language-'):]
WithLanguage(b, c) ==
    IF c.setPre THEN [b EXCEPT !["pre"].language = c.language] ELSE b

\* self._building_entities[tag] = EntityType(...)
Built(tag, c, b, txt) ==
    IF Creates(tag, c, b) THEN (tag :> NewEntity(c, txt)) @@ b ELSE b

\* one handler call: what was called, the depth of _open_tags before it, the
\* characters it appended to the text, and whether it stored a new entity in
\* _building_entities (start) or appended one to entities (end)
Event(ev, tag, n, made) ==
    [ev |-> ev, tag |-> tag, n |-> n, depth |-> Len(openTags), made |-> made]

\* handle_starttag(tag, attrs) after the if/elif chain ended as c
Started(tag, c) ==
    /\ openTags' = <<tag>> \o openTags
    /\ openTagsMeta' = MetaAfterStart(openTagsMeta, c)
    /\ building' = Built(tag, c, WithLanguage(building, c), text)
    /\ herr' = c.err
    /\ hist' = Append(hist, Event("start", tag, 0, Creates(tag, c, building)))
    /\ UNCHANGED <<text, entities>>

\* the start tags drawn
StartTags ==
    {[tag |-> "b", attrs |-> [href |-> Absent, class |-> Absent]],
     [tag |-> "pre", attrs |-> [href |-> Absent, class |-> Absent]],
     [tag |-> "code", attrs |-> [href |-> Absent,
                                 class |-> Attr(LanguagePrefix \o <<"p", "y">>)]],
     [tag |-> "a", attrs |-> [href |-> Absent, class |-> Absent]],
     [tag |-> "a", attrs |-> [href |-> Bare, class |-> Absent]],
     [tag |-> "a", attrs |-> [href |-> Attr(Mailto \o <<"m">>), class |-> Absent]],
     [tag |-> "a", attrs |-> [href |-> Attr(<<"u">>), class |-> Absent]]}

EndTags == {"b", "pre", "code", "a"}

Datas == {<<"x">>, <<"y", "z">>}

\* handle_starttag(tag, attrs)
HandleStarttag ==
    /\ Len(hist) < MaxEvents
    /\ \E s \in StartTags : Started(s.tag, TagBranch(s.tag, s.attrs, building))
    /\ UNCHANGED readerVars

\* the text handle_data counts and appends: the url kept for the innermost open
\* tag when that tag is <a> and the url is true, else the data
DataText(d, open, meta) ==
    IF Len(open) > 0 /\ open[1] = "a" /\ Truthy(meta[1]) THEN meta[1].val ELSE d

\* entity.length += len(text) for every entity under construction
Lengthened(b, n) == [t \in DOMAIN b |-> [b[t] EXCEPT !.length = @ + n]]

\* handle_data(text) once text is the one to append
Appended(txt) ==
    /\ building' = Lengthened(building, Len(txt))
    /\ text' = text \o txt
    /\ herr' = "none"
    /\ hist' = Append(hist, Event("data", "", Len(txt), FALSE))
    /\ UNCHANGED <<entities, openTags, openTagsMeta>>

\* handle_data(text)
HandleData ==
    /\ Len(hist) < MaxEvents
    /\ \E d \in Datas :
          IF Len(openTags) > 0 /\ openTags[1] = "a" /\ openTagsMeta = <<>>
          THEN /\ herr' = "IndexError"
               /\ hist' = Append(hist, Event("data", "", 0, FALSE))
               /\ UNCHANGED <<text, entities, building, openTags, openTagsMeta>>
          ELSE Appended(DataText(d, openTags, openTagsMeta))
    /\ UNCHANGED readerVars

\* self._open_tags.popleft(); self._open_tags_meta.popleft(), IndexError passed
PopLeft(q) == IF q = <<>> THEN q ELSE Tail(q)

\* self._building_entities.pop(tag, None)
Without(b, tag) == [t \in DOMAIN b \ {tag} |-> b[t]]

\* handle_endtag(tag)
HandleEndtag ==
    /\ Len(hist) < MaxEvents
    /\ \E tag \in EndTags :
          /\ openTags' = PopLeft(openTags)
          /\ openTagsMeta' = IF openTags = <<>> THEN openTagsMeta
                             ELSE PopLeft(openTagsMeta)
          /\ building' = Without(building, tag)
          /\ entities' = IF tag \in DOMAIN building
                         THEN Append(entities, building[tag]) ELSE entities
          /\ herr' = "none"
          /\ hist' = Append(hist, Event("end", tag, 0, tag \in DOMAIN building))
          /\ UNCHANGED text
    /\ UNCHANGED readerVars

InitHtml == Fresh(None, None, RawInput)

NextHtml ==
    \/ HandleStarttag
    \/ HandleData
    \/ HandleEndtag

SpecHtml == InitHtml /\ [][NextHtml]_vars

----------------------------------------------------------------------------
(* Properties *)

\* what the statements below speak of
DecodeOps ==
    {"read", "read_byte", "read_int", "read_long", "read_large_int",
     "tgread_bytes", "tgread_string", "tgread_object"}

SeekOps == {"seek", "set_position"}

\* the bytes left between position p and the end of the buffer
Remaining(p) == IF p >= Len(buf) THEN 0 ELSE Len(buf) - p

\* the 4 bytes at position p as an unsigned 32-bit little-endian number, in limbs
UnsignedId(p) == <<buf[p + 1] + 256 * buf[p + 2], buf[p + 3] + 256 * buf[p + 4]>>

\* a read that fell short, a text that did not decode, an identifier not found
IsFailure(e) ==
    \/ e.ev = "read" /\ e.got # e.n
    \/ e.ev = "decode" /\ ~e.ok
    \/ e.ev = "lookup" /\ e.clazz = "None"

Failures(l) == {i \in 1..Len(l) : IsFailure(l[i])}

Reads(l) == {i \in 1..Len(l) : l[i].ev = "read"}

\* the tgread_bytes call that decodes the drawn record from its first byte
DecodesRecord(form) ==
    /\ input.form = form
    /\ op = "tgread_bytes"
    /\ startPos = input.at

\* C1: a short-form record of a payload of length 0..253, decoded by tgread_bytes
\* from its first byte, gives back exactly the payload, and the position advances by
\* 1 + length + ((4 - ((length + 1) mod 4)) mod 4).
C1_ShortRoundTrip ==
    (DecodesRecord("short") /\ Len(input.payload) < LongFormMarker)
    => /\ ret.kind = "ok"
       /\ ret.val = input.payload
       /\ pos - startPos
            = 1 + Len(input.payload) + ((4 - ((Len(input.payload) + 1) % 4)) % 4)

C1_Witness ==
    /\ DecodesRecord("short")
    /\ Len(input.payload) = LongFormMarker - 1
    /\ input.at = 1
    /\ ret.kind = "ok"
    /\ pos = 1 + LongFormMarker + 2
    /\ pos < Len(buf)

\* C2: a long-form record of a payload of length 254 or more, decoded by tgread_bytes
\* from its first byte, gives back exactly the payload, and the position advances by
\* 4 + length + ((4 - (length mod 4)) mod 4).
C2_LongRoundTrip ==
    (DecodesRecord("long") /\ Len(input.payload) >= LongFormMarker)
    => /\ ret.kind = "ok"
       /\ ret.val = input.payload
       /\ pos - startPos
            = 4 + Len(input.payload) + ((4 - (Len(input.payload) % 4)) % 4)

C2_Witness ==
    /\ DecodesRecord("long")
    /\ Len(input.payload) = 257
    /\ ret.kind = "ok"
    /\ ret.val = input.payload
    /\ pos - startPos = 4 + 257 + 3

\* C3: tgread_object on 4 bytes that are no identifier of the registry raises the
\* unknown-identifier error (ImportError), returns no object, and leaves the position
\* exactly 4 bytes past where the call started.
C3_UnknownIdentifier ==
    (/\ op = "tgread_object"
     /\ Remaining(startPos) >= 4
     /\ UnsignedId(startPos) \notin DOMAIN tlobjects)
    => /\ ret.kind = "ImportError"
       /\ pos = startPos + 4
       /\ \A i \in 1..Len(ret.log) : ret.log[i].ev # "return"

C3_Witness ==
    /\ op = "tgread_object"
    /\ Remaining(startPos) >= 8
    /\ UnsignedId(startPos) \notin DOMAIN tlobjects
    /\ ret.kind = "ImportError"
    /\ pos = startPos + 4

\* C4: the identifier tgread_object looks up, and reports when it is unknown, is the
\* unsigned 32-bit little-endian value of the 4 bytes read (0..2^32-1), so that an
\* identifier with the high bit set is found under the key of its unsigned value.
C4_UnsignedIdentifier ==
    (op = "tgread_object" /\ Remaining(startPos) >= 4)
    => /\ ret.log[2].ev = "lookup"
       /\ ret.log[2].id = UnsignedId(startPos)
       /\ ret.log[2].id[2] >= 0
       /\ (ret.log[2].clazz # "None") = (UnsignedId(startPos) \in DOMAIN tlobjects)
       /\ (ret.kind = "ImportError" /\ pos = startPos + 4
             => ret.val = UnsignedId(startPos))

\* C5: read(n) gives exactly the next n bytes and advances the position by n when at
\* least n bytes are left, and raises BufferError, giving no bytes, when fewer are.
C5_ReadAllOrNothing ==
    op = "read"
    => IF Remaining(startPos) >= arg.n
       THEN /\ ret.kind = "ok"
            /\ ret.val = SubSeq(buf, startPos + 1, startPos + arg.n)
            /\ pos = startPos + arg.n
       ELSE /\ ret.kind = "BufferError"
            /\ ret.val = NoValue

C5_Witness ==
    /\ op = "read"
    /\ arg.n = 2
    /\ Remaining(startPos) = 1
    /\ ret.kind = "BufferError"

\* C6 as stated: whatever was called, 0 <= position <= len(buffer).
C6_PositionInBuffer ==
    reader = "open" => 0 <= pos /\ pos <= Len(buf)

\* C6, amended: the position is never negative, and it lies beyond len(buffer) only
\* when seek or set_position put it there: no reading method moves it beyond the end,
\* a reading method called beyond the end leaves it where it was.
C6_PositionNotMovedPastEnd ==
    reader = "open"
    => /\ 0 <= pos
       /\ pos > Len(buf) => (op \in SeekOps \/ pos = startPos)

C6_Witness ==
    /\ reader = "open"
    /\ op = "read"
    /\ arg.n > 0
    /\ pos > Len(buf)
    /\ ret.kind = "BufferError"

\* every object of the tree v holds as many fields as its class reads
RECURSIVE Populated(_)
Populated(v) ==
    /\ Len(v.fields) = Len(Layout(v.clazz))
    /\ \A i \in 1..Len(v.fields) :
          Layout(v.clazz)[i] = "object" => Populated(v.fields[i])

\* C7: tgread_object returns a fully populated instance or fails: once a read fails
\* while the fields are populated, at whatever depth, no tgread_object call returns
\* an instance, the root call included.
C7_NoPartialObject ==
    op = "tgread_object"
    => /\ ret.kind = "ok" => Populated(ret.val)
       /\ Failures(ret.log) # {}
            => /\ ret.kind # "ok"
               /\ \A i \in 1..Len(ret.log) : \A j \in Failures(ret.log) :
                     ret.log[i].ev = "return" => i < j

C7_Witness ==
    /\ op = "tgread_object"
    /\ ret.kind = "BufferError"
    /\ \E i, j \in 1..Len(ret.log) :
          /\ i < j
          /\ ret.log[i].ev = "on_response"
          /\ ret.log[j].ev = "on_response"
          /\ \E k \in Failures(ret.log) : k > j

\* C8: decoding a buffer that holds fewer bytes than asked for fails with BufferError
\* and gives no value: this for every read a method makes, and for the empty buffer,
\* of which every method asks at least one byte.
C8_UnderrunIsBufferError ==
    /\ (op \in DecodeOps /\ \E i \in 1..Len(ret.log) :
            ret.log[i].ev = "read" /\ ret.log[i].got # ret.log[i].n)
       => ret.kind = "BufferError" /\ ret.val = NoValue
    /\ (op = "__init__" /\ data.some /\ data.bytes = <<>> /\ ~stream.some)
       => ret.kind = "BufferError"

\* C9: no reading method leaves the position before the place where it was called,
\* nor does any read it makes start before an earlier one, whether it ends well or not.
C9_PositionNeverDecreases ==
    op \in DecodeOps
    => /\ pos >= startPos
       /\ \A i \in Reads(ret.log) :
             /\ startPos <= ret.log[i].at
             /\ ret.log[i].at <= pos
             /\ \A j \in Reads(ret.log) : i < j => ret.log[i].at <= ret.log[j].at

C9_Witness ==
    /\ op = "tgread_object"
    /\ ret.kind # "ok"
    /\ Len(ret.log) > 4
    /\ startPos > 0
    /\ pos > startPos

\* the length the long form states at position p: 3 bytes, little-endian
StatedLength(p) == buf[p + 2] + 256 * buf[p + 3] + 65536 * buf[p + 4]

\* C10 as stated: every first byte but 254 is a short-form length, and that length
\* lies in 0..253.
C10_ShortLengthBelowMarker ==
    (op = "tgread_bytes" /\ Remaining(startPos) >= 1
       /\ buf[startPos + 1] # LongFormMarker)
    => /\ ret.log[2] = ReadEvent(startPos + 1, buf[startPos + 1], ret.log[2].got)
       /\ buf[startPos + 1] \in 0..(LongFormMarker - 1)

\* C10, amended: every first byte but 254 is a short-form length, 255 included: the
\* payload asked for is that many bytes, right after the first byte (0..253 or 255);
\* only 254 selects the long form, whose payload is as long as the next 3 bytes,
\* little-endian, state.
C10_FormByFirstByte ==
    (op = "tgread_bytes" /\ Remaining(startPos) >= 1)
    => IF buf[startPos + 1] # LongFormMarker
       THEN /\ ret.log[2] = ReadEvent(startPos + 1, buf[startPos + 1], ret.log[2].got)
            /\ buf[startPos + 1] \in (0..(LongFormMarker - 1)) \cup {LongFormMarker + 1}
            /\ ret.kind = "ok" => Len(ret.val) = buf[startPos + 1]
       ELSE Remaining(startPos) >= 4
            => /\ ret.log[5]
                    = ReadEvent(startPos + 4, StatedLength(startPos), ret.log[5].got)
               /\ ret.kind = "ok" => Len(ret.val) = StatedLength(startPos)

C10_Witness ==
    /\ op = "tgread_bytes"
    /\ Remaining(startPos) >= 1
    /\ buf[startPos + 1] = LongFormMarker + 1
    /\ ret.kind = "ok"
    /\ Len(ret.val) = LongFormMarker + 1

Lookups(l) == {i \in 1..Len(l) : l[i].ev = "lookup"}

Calls(l) == {i \in 1..Len(l) : l[i].ev = "on_response"}

\* the reads of l follow one another without a gap, the first at position p
Contiguous(l, p) ==
    \A i \in Reads(l) :
        IF \E h \in Reads(l) : h < i
        THEN LET h == CHOOSE h \in Reads(l) :
                          h < i /\ \A g \in Reads(l) : g < i => g <= h
             IN  l[i].at = l[h].at + l[h].got
        ELSE l[i].at = p

\* C12: when the 4 bytes read are a registered identifier, tgread_object calls the
\* population routine of the registered class once, with the reader 4 bytes past the
\* start of the call; every nested tgread_object does the same, every read starts
\* where the one before ended, and when the root returns the position is the start
\* plus all the bytes read.
C12_PopulatesRegistered ==
    (/\ op = "tgread_object"
     /\ Remaining(startPos) >= 4
     /\ UnsignedId(startPos) \in DOMAIN tlobjects)
    => /\ Len(ret.log) >= 3
       /\ ret.log[3] = CallEvent(startPos + 4, tlobjects[UnsignedId(startPos)])
       /\ \A i \in Lookups(ret.log) :
             /\ ret.log[i - 1].ev = "read"
             /\ ret.log[i].at = ret.log[i - 1].at + 4
             /\ ret.log[i].clazz # "None"
                  => /\ i < Len(ret.log)
                     /\ ret.log[i + 1] = CallEvent(ret.log[i].at, ret.log[i].clazz)
       /\ \A i \in Calls(ret.log) : ret.log[i - 1].ev = "lookup"
       /\ Contiguous(ret.log, startPos)
       /\ ret.kind = "ok"
            => /\ ret.val.clazz = tlobjects[UnsignedId(startPos)]
               /\ \A i \in Reads(ret.log) :
                     (\A j \in Reads(ret.log) : j <= i)
                        => pos = ret.log[i].at + ret.log[i].got

\* what the failure logged as e is raised as
ErrorOf(e) ==
    CASE e.ev = "read" -> "BufferError"
      [] e.ev = "decode" -> "UnicodeDecodeError"
      [] e.ev = "lookup" -> "ImportError"

\* C13: a root tgread_object call ends at the first failure in depth-first,
\* left-to-right order: the error it raises is that of the earliest failing read,
\* text decoding or lookup, nothing is read or looked up after it, and a call that
\* raises has such a failure.
C13_FirstErrorEnds ==
    op = "tgread_object"
    => /\ ret.kind # "ok" => Failures(ret.log) # {}
       /\ \A k \in Failures(ret.log) :
             /\ k = Len(ret.log)
             /\ ret.kind = ErrorOf(ret.log[k])

\* a read fails in an object nested two deep, a field of the root still unread
C13_Witness ==
    /\ op = "tgread_object"
    /\ ret.kind = "BufferError"
    /\ Cardinality(Calls(ret.log)) >= 3
    /\ ret.log[3].clazz = "TypeC"

\* C15: a read(n) that fails from a position inside the buffer leaves the position
\* at len(buffer), the bytes left being consumed; and from a position at or past
\* the end every call that is not seek or set_position leaves it there, a
\* read(m) with m >= 1 among them failing with BufferError.
C15_FailedReadExhausts ==
    /\ [](op = "read" /\ ret.kind = "BufferError" /\ startPos <= Len(buf)
            => pos = Len(buf))
    /\ [][(reader = "open" /\ pos >= Len(buf) /\ nops' = nops + 1 /\ op' \notin SeekOps)
            => /\ pos' >= Len(buf)
               /\ (op' = "read" /\ arg'.n >= 1) => ret'.kind = "BufferError"]_vars

\* a read(m), m >= 1, that starts at the end of a non-empty buffer after another call
C15_Witness ==
    /\ op = "read"
    /\ arg.n >= 1
    /\ nops >= 2
    /\ Len(buf) >= 1
    /\ startPos = Len(buf)
    /\ ret.kind = "BufferError"
    /\ pos = Len(buf)

\* C16: the constructor fails, with ValueError and no reader to call, exactly when
\* data is absent or empty and no stream is given; with non-empty data the reader
\* starts at position 0 over exactly those bytes, whatever stream is given.
C16_ConstructorNeedsBytes ==
    /\ reader # "new"
         => (reader = "failed" <=> ~((data.some /\ data.bytes # <<>>) \/ stream.some))
    /\ reader = "failed"
         => op = "__init__" /\ ret.kind = "ValueError" /\ nops = 0 /\ buf = <<>>
    /\ (reader # "new" /\ data.some /\ data.bytes # <<>>)
         => /\ buf = data.bytes
            /\ op = "__init__" => (ret.kind = "ok" /\ pos = 0)

\* empty data and no stream: no reader
C16_Witness ==
    /\ op = "__init__"
    /\ data = Some(<<>>)
    /\ ~stream.some
    /\ reader = "failed"
    /\ ret.kind = "ValueError"

\* C14: a with block closes its reader on every way out: a body that raised makes
\* no further call before __exit__, and once the block is left, after a body that
\* completed as after one that raised, the reader is closed, close() was called
\* once, and the exception of the body, if any, is the one that leaves the block.
C14_ClosedOnExit ==
    /\ [](scope = "in" => (reader = "open" /\ closes = 0))
    /\ [](scope = "exited"
            => /\ reader = "closed"
               /\ closes = 1
               /\ raised = (IF ret.kind = "ok" THEN "none" ELSE ret.kind))
    /\ [][(scope = "in" /\ ret.kind # "ok") => scope' = "exited"]_vars

\* a with block left after its body raised on a text that is not UTF-8
C14_Witness ==
    /\ scope = "exited"
    /\ op = "tgread_object"
    /\ ret.kind = "UnicodeDecodeError"
    /\ raised = "UnicodeDecodeError"
    /\ reader = "closed"

\* the characters appended by the calls i..j of h
RECURSIVE Chars(_, _, _)
Chars(h, i, j) == IF i > j THEN 0 ELSE h[j].n + Chars(h, i, j - 1)

\* the start tags that stored an entity for tag t, the end tags that completed one
Created(t) == {i \in 1..Len(hist) : hist[i].ev = "start" /\ hist[i].tag = t /\ hist[i].made}
Completed(t) == {i \in 1..Len(hist) : hist[i].ev = "end" /\ hist[i].tag = t /\ hist[i].made}
Completions == {i \in 1..Len(hist) : hist[i].ev = "end" /\ hist[i].made}

\* the last start tag before call j that stored an entity for tag t
Creation(t, j) == CHOOSE i \in Created(t) : i < j /\ \A g \in Created(t) : g < j => g <= i

\* the call that completed entities[k]
Completion(k) == CHOOSE j \in Completions : Cardinality({g \in Completions : g <= j}) = k

\* entity e of tag t was stored by call i and counted the characters of calls i..j,
\* with no end tag of t among them
Spans(e, t, i, j) ==
    /\ e.offset = Chars(hist, 1, i)
    /\ e.length = Chars(hist, i, j)
    /\ \A g \in i..j : ~(hist[g].ev = "end" /\ hist[g].tag = t)

\* C17: _open_tags and _open_tags_meta always have the same length, and
\* handle_endtag called when both are empty leaves both empty and raises nothing.
C17_StacksInStep ==
    /\ [](Len(openTags) = Len(openTagsMeta))
    /\ [][(/\ openTags = <<>>
           /\ openTagsMeta = <<>>
           /\ Len(hist') = Len(hist) + 1
           /\ hist'[Len(hist')].ev = "end")
          => (openTags' = <<>> /\ openTagsMeta' = <<>> /\ herr' = "none")]_vars

\* <a> without href, its end tag, and one more end tag with nothing open
C17_Witness ==
    /\ Len(hist) >= 3
    /\ hist[1].ev = "start" /\ hist[1].tag = "a" /\ ~hist[1].made
    /\ openTagsMeta = <<>>
    /\ hist[Len(hist)].ev = "end"
    /\ hist[Len(hist)].depth = 0
    /\ herr = "none"

\* C18: for every tag name at most one entity is under construction (the start tags
\* that stored one are one more than the end tags that completed one when the tag is
\* in _building_entities, as many otherwise); every entity, under construction or
\* completed, has offset + length <= len(text); its offset is the length of the text
\* when its start tag came and its length the number of characters handle_data
\* appended from then to now (under construction) or to the first later end tag of
\* the same name (completed), a start tag of that name in between storing nothing.
C18_EntitySpans ==
    /\ Len(text) = Chars(hist, 1, Len(hist))
    /\ Len(entities) = Cardinality(Completions)
    /\ \A t \in EndTags :
          Cardinality(Created(t)) =
              Cardinality(Completed(t)) + (IF t \in DOMAIN building THEN 1 ELSE 0)
    /\ \A t \in DOMAIN building :
          /\ building[t].offset + building[t].length <= Len(text)
          /\ Spans(building[t], t, Creation(t, Len(hist) + 1), Len(hist))
    /\ \A k \in 1..Len(entities) :
          /\ entities[k].offset + entities[k].length <= Len(text)
          /\ Spans(entities[k], hist[Completion(k)].tag,
                   Creation(hist[Completion(k)].tag, Completion(k)), Completion(k) - 1)

\* <b>, a nested <b>, text, </b>: one entity, completed by the first </b>
C18_Witness ==
    /\ Len(hist) >= 4
    /\ hist[1].ev = "start" /\ hist[1].tag = "b" /\ hist[1].made
    /\ hist[2].ev = "start" /\ hist[2].tag = "b" /\ ~hist[2].made
    /\ hist[3].ev = "data"
    /\ hist[4].ev = "end" /\ hist[4].tag = "b" /\ hist[4].made
    /\ Len(entities) >= 1
    /\ entities[1].length = hist[3].n
    /\ "b" \notin DOMAIN building

====
